---- MODULE Spec2Model ----
(***************************************************************************)
(* jsfuzzymind (src/index.cjs): FuzzySet, FuzzyRule and InferenceEngine.   *)
(*                                                                         *)
(* One behaviour is one method call on one receiver, a FuzzySet or an       *)
(* InferenceEngine built from a rule sequence.  No method writes a field   *)
(* (the constructors, lines 3-6, 55-59 and 72-74, are the only writers),   *)
(* so a later call on the same object starts from the same state.  The     *)
(* sampling loops of centroid / defuzzify* advance one iteration per step; *)
(* the other methods are one step each.                                    *)
(*                                                                         *)
(* Numbers.  JavaScript numbers are IEEE-754 binary64.                     *)
(*  - Rule weights and the sums, products and quotient of aggregateResults *)
(*    are modelled as binary64 values with round-to-nearest-even (the      *)
(*    operators FAdd, FMul, FDiv below), on exact multi-limb integers.     *)
(*  - Sample points x, min, max, step are small integers and membership    *)
(*    degrees are multiples of 1/2 (the integer k stands for k/2): every   *)
(*    sum and product the sampling loops form is then exactly              *)
(*    representable in binary64, so integer arithmetic is the code's       *)
(*    arithmetic.  A returned quotient n/d is kept as the pair <<n, d>>.   *)
(***************************************************************************)
EXTENDS Integers, Sequences, FiniteSets, TLC

(***************************************************************************)
(* Exact natural numbers: little-endian sequences of limbs below Base,     *)
(* without leading zero limbs (0 is the empty sequence).                   *)
(***************************************************************************)
LimbBits == 15
Base == 2^LimbBits

RECURSIVE BTrim(_)
BTrim(a) ==
  IF a # <<>> /\ a[Len(a)] = 0 THEN BTrim(SubSeq(a, 1, Len(a) - 1)) ELSE a

BLimb(a, i) == IF i <= Len(a) THEN a[i] ELSE 0

RECURSIVE BAddFrom(_, _, _, _)
BAddFrom(a, b, i, c) ==
  IF i > Len(a) /\ i > Len(b)
  THEN (IF c = 0 THEN <<>> ELSE <<c>>)
  ELSE LET s == BLimb(a, i) + BLimb(b, i) + c
       IN  <<s % Base>> \o BAddFrom(a, b, i + 1, s \div Base)

BAdd(a, b) == BAddFrom(a, b, 1, 0)

\* a - b for a >= b
RECURSIVE BSubFrom(_, _, _, _)
BSubFrom(a, b, i, br) ==
  IF i > Len(a)
  THEN <<>>
  ELSE LET s == a[i] - BLimb(b, i) - br
       IN  IF s < 0
           THEN <<s + Base>> \o BSubFrom(a, b, i + 1, 1)
           ELSE <<s>> \o BSubFrom(a, b, i + 1, 0)

BSub(a, b) == BTrim(BSubFrom(a, b, 1, 0))

RECURSIVE BGeFrom(_, _, _)
BGeFrom(a, b, i) ==
  IF i = 0 THEN TRUE
  ELSE IF a[i] # b[i] THEN a[i] > b[i]
  ELSE BGeFrom(a, b, i - 1)

\* a >= b
BGe(a, b) == IF Len(a) # Len(b) THEN Len(a) > Len(b) ELSE BGeFrom(a, b, Len(a))

\* a * m for a single limb m
RECURSIVE BMulSmallFrom(_, _, _, _)
BMulSmallFrom(a, m, i, c) ==
  IF i > Len(a)
  THEN (IF c = 0 THEN <<>> ELSE <<c>>)
  ELSE LET s == a[i] * m + c
       IN  <<s % Base>> \o BMulSmallFrom(a, m, i + 1, s \div Base)

BMulSmall(a, m) == BTrim(BMulSmallFrom(a, m, 1, 0))

Zeros(n) == [i \in 1..n |-> 0]

RECURSIVE BMulFrom(_, _, _)
BMulFrom(a, b, j) ==
  IF j > Len(b) THEN <<>>
  ELSE BAdd(BTrim(Zeros(j - 1) \o BMulSmall(a, b[j])), BMulFrom(a, b, j + 1))

BMul(a, b) == BTrim(BMulFrom(a, b, 1))

\* a * 2^k
BShl(a, k) == BTrim(Zeros(k \div LimbBits) \o BMulSmall(a, 2^(k % LimbBits)))

\* floor(a / 2^k)
BShr(a, k) ==
  LET w == k \div LimbBits
      r == k % LimbBits
      n == Len(a) - w
  IN  IF n <= 0 THEN <<>>
      ELSE BTrim([i \in 1..n |->
                    (a[i + w] \div 2^r)
                    + (BLimb(a, i + w + 1) % 2^r) * 2^(LimbBits - r)])

\* a mod 2^k
BLow(a, k) ==
  LET w == k \div LimbBits
      r == k % LimbBits
  IN  BTrim([i \in 1..(w + 1) |->
               IF i <= w THEN BLimb(a, i) ELSE BLimb(a, i) % 2^r])

RECURSIVE SmallBitLen(_)
SmallBitLen(n) == IF n = 0 THEN 0 ELSE 1 + SmallBitLen(n \div 2)

BBitLen(a) ==
  IF a = <<>> THEN 0 ELSE LimbBits * (Len(a) - 1) + SmallBitLen(a[Len(a)])

\* bit i (from 0) of a
BBit(a, i) == (BLimb(a, i \div LimbBits + 1) \div 2^(i % LimbBits)) % 2

\* Long division of r * 2^n by den for r < den, one bit per step: the quotient
\* bits are appended to q.  (Len(q2) >= 0 only makes TLC evaluate q2 now
\* instead of building a chain of unevaluated sums.)
RECURSIVE BDivBits(_, _, _, _)
BDivBits(r, q, den, n) ==
  IF n = 0
  THEN [quot |-> q, rem |-> r]
  ELSE LET r2 == BAdd(r, r)
           q2 == BAdd(q, q)
       IN  IF Len(q2) >= 0 /\ BGe(r2, den)
           THEN BDivBits(BSub(r2, den), BAdd(q2, <<1>>), den, n - 1)
           ELSE BDivBits(r2, q2, den, n - 1)

\* The same, LimbBits bits at a time, to keep the recursion shallow.
RECURSIVE BDivZeros(_, _, _, _)
BDivZeros(r, q, den, n) ==
  IF n = 0
  THEN [quot |-> q, rem |-> r]
  ELSE LET c == IF n < LimbBits THEN n ELSE LimbBits
           s == BDivBits(r, q, den, c)
       IN  IF Len(s.quot) >= 0
           THEN BDivZeros(s.rem, s.quot, den, n - c)
           ELSE s

(***************************************************************************)
(* binary64: the value mant * 2^exp with mant below 2^MantissaBits.        *)
(* Only non-negative finite values occur (weights are non-negative, the    *)
(* scores are 0..3), and no exponent leaves the normal range.              *)
(***************************************************************************)
MantissaBits == 53

Float(m, e) == [mant |-> m, exp |-> e]

FromNat(n) == Float(BTrim(<<n % Base, n \div Base>>), 0)

FZero == FromNat(0)

\* The exact value n * 2^e rounded to nearest, ties to even.
Round(n, e) ==
  LET h == BBitLen(n)
  IN  IF h <= MantissaBits
      THEN Float(n, e)
      ELSE LET d    == h - MantissaBits
               q    == BShr(n, d)
               low  == BLow(n, d)
               half == BShl(<<1>>, d - 1)
               up   == IF low = half THEN BBit(q, 0) = 1 ELSE BGe(low, half)
               r    == IF up THEN BAdd(q, <<1>>) ELSE q
           IN  IF BBitLen(r) > MantissaBits
               THEN Float(BShr(r, 1), e + d + 1)
               ELSE Float(r, e + d)

MinInt(a, b) == IF a < b THEN a ELSE b

\* a + b
FAdd(a, b) ==
  LET e == MinInt(a.exp, b.exp)
  IN  Round(BAdd(BShl(a.mant, a.exp - e), BShl(b.mant, b.exp - e)), e)

\* a * b
FMul(a, b) == Round(BMul(a.mant, b.mant), a.exp + b.exp)

\* m * 2^e with m shifted up to exactly MantissaBits bits (m # 0)
Normal(a) ==
  LET s == MantissaBits - BBitLen(a.mant)
  IN  Float(BShl(a.mant, s), a.exp - s)

\* a / b for b > 0: with both mantissas normal the quotient lies in (1/2, 2);
\* it is developed to MantissaBits + 2 fraction bits and a sticky bit for
\* the remainder, then rounded.
FDiv(a, b) ==
  IF a.mant = <<>> THEN FZero
  ELSE LET A  == Normal(a)
           B  == Normal(b)
           ge == BGe(A.mant, B.mant)
           d  == BDivZeros(IF ge THEN BSub(A.mant, B.mant) ELSE A.mant,
                           IF ge THEN <<1>> ELSE <<>>,
                           B.mant, MantissaBits + 2)
           n  == BAdd(BAdd(d.quot, d.quot), IF d.rem = <<>> THEN <<>> ELSE <<1>>)
       IN  Round(n, A.exp - B.exp - MantissaBits - 3)

\* a >= b
FGe(a, b) ==
  LET e == MinInt(a.exp, b.exp)
  IN  BGe(BShl(a.mant, a.exp - e), BShl(b.mant, b.exp - e))

\* a > b
FGt(a, b) == ~FGe(b, a)

\* a = b as numbers
FEq(a, b) == FGe(a, b) /\ FGe(b, a)


(***************************************************************************)
(* Bounds of the exploration.                                              *)
(***************************************************************************)
\* Sample points are Knee * k for k in 0..MaxX.
MaxX == 3
\* An engine holds at most MaxRules rules.
MaxRules == 3
\* A sampling loop is followed for at most MaxIter iterations: as many as a
\* loop over the whole grid takes.
MaxIter == MaxX + 1

(***************************************************************************)
(* Caller-supplied data: membership functions, inputs, rules.              *)
(***************************************************************************)
\* The membership degree 1, in halves.
Full == 2
\* The knee of the README's 'Urgent' set: x => x >= 7 ? 1 : x / 7.
Knee == 7

Xs == {Knee * k : k \in 0..MaxX}

\* new FuzzySet(name, membershipFunction); the function is its table on Xs.
FuzzySet(name, f) == [name |-> name, membershipFunction |-> f]

UrgentSet ==
  FuzzySet("Urgent", [x \in Xs |-> IF x >= Knee THEN Full ELSE (Full * x) \div Knee])

\* 1 on [Knee, 2 * Knee] and -1/2 elsewhere (nothing keeps a membership
\* function within [0, 1]): under the aggregate's starting value 0 it is a
\* single flat-top plateau.
PlateauSet ==
  FuzzySet("Plateau", [x \in Xs |-> IF Knee <= x /\ x <= 2 * Knee THEN Full ELSE -1])

\* 1 on every other sample point and 1/2 between: the maximum is left and
\* met again.
PeaksSet ==
  FuzzySet("Peaks", [x \in Xs |-> IF (x \div Knee) % 2 = 0 THEN Full ELSE 1])

FuzzySets == {UrgentSet, PlateauSet, PeaksSet}

\* JavaScript values a consequence can produce: a string or a FuzzySet.
NoSet == FuzzySet("", [x \in Xs |-> 0])
Str(s) == [type |-> "string", str |-> s, set |-> NoSet]
Obj(S) == [type |-> "FuzzySet", str |-> "", set |-> S]

\* A consequence is a FuzzySet instance or a function of the inputs; the
\* functions used are constant, as the README's () => 'High Priority'.
Instance(S) == [instanceofFuzzySet |-> TRUE, value |-> Obj(S)]
Function(v) == [instanceofFuzzySet |-> FALSE, value |-> v]

\* new FuzzyRule(condition, consequence, weight)
FuzzyRule(condition, consequence, weight) ==
  [condition |-> condition, consequence |-> consequence, weight |-> weight]

Urgencies == {5, 8}
Complexities == {1, 6}
Inputs == [urgency : Urgencies, complexity : Complexities]

\* The README's urgencySet and complexitySet, as exact fractions <<n, d>>.
urgencySet(urgency) ==
  IF urgency < 3 THEN <<0, 1>>
  ELSE IF urgency < 7 THEN <<urgency - 3, 4>>
  ELSE <<1, 1>>

complexitySet(complexity) ==
  IF complexity < 2 THEN <<0, 1>>
  ELSE IF complexity < 5 THEN <<complexity - 2, 3>>
  ELSE <<1, 1>>

\* q > t / 10 for the fraction q.  (No degree used lies within a rounding
\* error of 0.5 or 0.7, so the exact comparison is the binary64 one.)
AboveTenths(q, t) == 10 * q[1] > t * q[2]

\* The four conditions of the README's rules, by name.
Condition(c, inputs) ==
  LET u == urgencySet(inputs.urgency)
      k == complexitySet(inputs.complexity)
  IN  CASE c = "both > 0.7"        -> AboveTenths(u, 7) /\ AboveTenths(k, 7)
        [] c = "urgency > 0.5"     -> AboveTenths(u, 5)
        [] c = "complexity > 0.5"  -> AboveTenths(k, 5)
        [] c = "both <= 0.5"       -> ~AboveTenths(u, 5) /\ ~AboveTenths(k, 5)

One == FromNat(1)
Tenth == FDiv(FromNat(1), FromNat(10))

\* The rules of the README's example.
ReadmeRules ==
  << FuzzyRule("both > 0.7", Instance(UrgentSet), One),
     FuzzyRule("urgency > 0.5", Function(Str("High Priority")), One),
     FuzzyRule("complexity > 0.5", Function(Str("Medium Priority")), One),
     FuzzyRule("both <= 0.5", Function(Str("Low Priority")), One) >>

\* Further rules engines are built from.
RuleCatalog ==
  { FuzzyRule("complexity > 0.5", Function(Obj(PlateauSet)), Tenth),
    FuzzyRule("complexity > 0.5", Function(Str("Urgent")), One),
    FuzzyRule("urgency > 0.5", Function(Str("High Priority")), FromNat(2)),
    FuzzyRule("both > 0.7", Instance(PlateauSet), Tenth),
    FuzzyRule("both > 0.7", Instance(UrgentSet), One),
    FuzzyRule("both <= 0.5", Instance(PeaksSet), FZero) }

RuleLists == UNION {[1..n -> RuleCatalog] : n \in 0..MaxRules}

Engines == {ReadmeRules} \cup RuleLists

(***************************************************************************)
(* FuzzySet                                                                *)
(***************************************************************************)
MathMax(a, b) == IF a > b THEN a ELSE b
MathMin(a, b) == IF a < b THEN a ELSE b

membershipDegree(S, x) == S.membershipFunction[x]

\* union as it would be with Math.min for Math.max
unionOfMinima(S, otherSet) ==
  FuzzySet("Union(" \o S.name \o ", " \o otherSet.name \o ")",
           [x \in Xs |-> MathMin(S.membershipFunction[x], otherSet.membershipFunction[x])])

union(S, otherSet) ==
  FuzzySet("Union(" \o S.name \o ", " \o otherSet.name \o ")",
           [x \in Xs |-> MathMax(S.membershipFunction[x], otherSet.membershipFunction[x])])

intersection(S, otherSet) ==
  FuzzySet("Intersection(" \o S.name \o ", " \o otherSet.name \o ")",
           [x \in Xs |-> MathMin(S.membershipFunction[x], otherSet.membershipFunction[x])])

complement(S) ==
  FuzzySet("Complement(" \o S.name \o ")",
           [x \in Xs |-> Full - S.membershipFunction[x]])

(***************************************************************************)
(* FuzzyRule                                                               *)
(***************************************************************************)
Null == [result |-> Str("null"), weight |-> FZero, null |-> TRUE]

\* evaluate(inputs): {result, weight}, or null when the condition fails.
evaluate(rule, inputs) ==
  IF Condition(rule.condition, inputs)
  THEN LET result == IF rule.consequence.instanceofFuzzySet
                     THEN rule.consequence.value
                     ELSE rule.consequence.value   \* this.consequence(inputs)
       IN  [result |-> result, weight |-> rule.weight, null |-> FALSE]
  ELSE Null

\* How many caller functions evaluate invokes: the condition, and the
\* consequence when it is a function and the condition holds.
evaluateCalls(rule, inputs) ==
  IF Condition(rule.condition, inputs) /\ ~rule.consequence.instanceofFuzzySet
  THEN 2 ELSE 1


(***************************************************************************)
(* InferenceEngine                                                         *)
(***************************************************************************)
RECURSIVE inferLoop(_, _, _, _)
inferLoop(rules, inputs, i, results) ==
  IF i > Len(rules)
  THEN results
  ELSE LET evaluation == evaluate(rules[i], inputs)
       IN  inferLoop(rules, inputs, i + 1,
                     IF ~evaluation.null THEN Append(results, evaluation) ELSE results)

\* priorityMapping as it would be if a FuzzySet scored by its name
priorityMappingByName(priority) ==
  LET label == IF priority.type = "FuzzySet" THEN priority.set.name ELSE priority.str
  IN  CASE label = "Urgent"          -> 3
        [] label = "High Priority"   -> 2
        [] label = "Medium Priority" -> 1
        [] OTHER                     -> 0

priorityMapping(priority) ==
  CASE priority = Str("Urgent")          -> 3
    [] priority = Str("High Priority")   -> 2
    [] priority = Str("Medium Priority") -> 1
    [] OTHER                             -> 0

\* 2.5, 1.5 and 0.5
Halves(n) == Float(BTrim(<<n>>), -1)

reversePriorityMapping(score) ==
  IF FGe(score, Halves(5)) THEN "Urgent"
  ELSE IF FGe(score, Halves(3)) THEN "High Priority"
  ELSE IF FGe(score, Halves(1)) THEN "Medium Priority"
  ELSE "Low Priority"

\* forEachResult as it would be if a result scoring 0 were skipped
RECURSIVE forEachScoringResult(_, _, _, _)
forEachScoringResult(results, i, weightedSum, totalWeight) ==
  IF i > Len(results)
  THEN [weightedSum |-> weightedSum, totalWeight |-> totalWeight]
  ELSE IF priorityMapping(results[i].result) = 0
       THEN forEachScoringResult(results, i + 1, weightedSum, totalWeight)
       ELSE forEachScoringResult(results, i + 1,
              FAdd(weightedSum,
                   FMul(FromNat(priorityMapping(results[i].result)), results[i].weight)),
              FAdd(totalWeight, results[i].weight))

\* forEachResult as it would be with weightedSum = for weightedSum +=
RECURSIVE forEachResultAssigning(_, _, _, _)
forEachResultAssigning(results, i, weightedSum, totalWeight) ==
  IF i > Len(results)
  THEN [weightedSum |-> weightedSum, totalWeight |-> totalWeight]
  ELSE forEachResultAssigning(results, i + 1,
         FMul(FromNat(priorityMapping(results[i].result)), results[i].weight),
         FAdd(totalWeight, results[i].weight))

\* results.forEach(...): the two running sums after results[i..]
RECURSIVE forEachResult(_, _, _, _)
forEachResult(results, i, weightedSum, totalWeight) ==
  IF i > Len(results)
  THEN [weightedSum |-> weightedSum, totalWeight |-> totalWeight]
  ELSE forEachResult(results, i + 1,
         FAdd(weightedSum,
              FMul(FromNat(priorityMapping(results[i].result)), results[i].weight)),
         FAdd(totalWeight, results[i].weight))

aggregateResults(results) ==
  IF Len(results) = 0
  THEN "Low Priority"
  ELSE LET sums == forEachResult(results, 1, FZero, FZero)
       IN  IF FGt(sums.totalWeight, FZero)
           THEN reversePriorityMapping(FDiv(sums.weightedSum, sums.totalWeight))
           ELSE "Low Priority"

infer(rules, inputs) == aggregateResults(inferLoop(rules, inputs, 1, <<>>))

RECURSIVE inferCalls(_, _, _)
inferCalls(rules, inputs, i) ==
  IF i > Len(rules) THEN 0
  ELSE evaluateCalls(rules[i], inputs) + inferCalls(rules, inputs, i + 1)

IsFuzzySetInstance(consequence) == consequence.instanceofFuzzySet

\* getFuzzySetConsequences as it would be if it kept what yields a FuzzySet
YieldsFuzzySet(consequence) == consequence.value.type = "FuzzySet"

getFuzzySetResults(rules) ==
  LET consequences == [i \in 1..Len(rules) |-> rules[i].consequence]
      kept == SelectSeq(consequences, YieldsFuzzySet)
  IN  [i \in 1..Len(kept) |-> kept[i].value.set]

\* getFuzzySetConsequences as it would be if it kept the rules of weight > 0
IsWeightedInstance(rule) == rule.consequence.instanceofFuzzySet /\ FGt(rule.weight, FZero)

getWeightedFuzzySetConsequences(rules) ==
  LET kept == SelectSeq(rules, IsWeightedInstance)
  IN  [i \in 1..Len(kept) |-> kept[i].consequence.value.set]

getFuzzySetConsequences(rules) ==
  LET consequences == [i \in 1..Len(rules) |-> rules[i].consequence]
      kept == SelectSeq(consequences, IsFuzzySetInstance)
  IN  [i \in 1..Len(kept) |-> kept[i].value.set]

\* let mu = 0; for (const fuzzySet of fuzzySets) mu = Math.max(mu, ...(x))
RECURSIVE aggregateFrom(_, _, _, _)
aggregateFrom(sets, x, i, mu) ==
  IF i > Len(sets) THEN mu
  ELSE aggregateFrom(sets, x, i + 1, MathMax(mu, sets[i].membershipFunction[x]))

aggregate(sets, x) == aggregateFrom(sets, x, 1, 0)

\* numerator / denominator as a fraction; the literal 0 is 0 / 1
Quotient(n, d) == <<n, d>>
Number(n) == <<n, 1>>


\* FuzzySet.centroid run to its end: the loop from x on.
RECURSIVE centroidFrom(_, _, _, _, _, _)
centroidFrom(S, xx, max, step, num, den) ==
  IF xx <= max
  THEN LET mu == S.membershipFunction[xx]
       IN  centroidFrom(S, xx + step, max, step, num + xx * mu, den + mu)
  ELSE IF den = 0 THEN Number(0) ELSE Quotient(num, den)

centroid(S, min, max, step) == centroidFrom(S, min, max, step, 0, 0)

\* The defuzzify* methods run to their end.
RECURSIVE defuzzifyCentroidFrom(_, _, _, _, _, _)
defuzzifyCentroidFrom(sets, xx, max, step, num, den) ==
  IF xx <= max
  THEN LET mu == aggregate(sets, xx)
       IN  defuzzifyCentroidFrom(sets, xx + step, max, step, num + xx * mu, den + mu)
  ELSE IF den = 0 THEN Number(0) ELSE Quotient(num, den)

defuzzifyCentroid(rules, min, max, step) ==
  defuzzifyCentroidFrom(getFuzzySetConsequences(rules), min, max, step, 0, 0)

\* MOMBody as it would be with mu >= maxMu for mu > maxMu
MOMBodyLastMaximum(mu, xx, m, s, c) ==
  IF mu >= m THEN <<mu, xx, 1>>
  ELSE <<m, s, c>>

\* MOMBody as it would be without its else-if branch
MOMBodyFirstMaximum(mu, xx, m, s, c) ==
  IF mu > m THEN <<mu, xx, 1>>
  ELSE <<m, s, c>>

\* The body of defuzzifyMOM's loop: the new <<maxMu, sumX, count>>.
MOMBody(mu, xx, m, s, c) ==
  IF mu > m THEN <<mu, xx, 1>>
  ELSE IF mu = m THEN <<m, s + xx, c + 1>>
  ELSE <<m, s, c>>

RECURSIVE defuzzifyMOMFrom(_, _, _, _, _)
defuzzifyMOMFrom(sets, xx, max, step, acc) ==
  IF xx <= max
  THEN defuzzifyMOMFrom(sets, xx + step, max, step,
                        MOMBody(aggregate(sets, xx), xx, acc[1], acc[2], acc[3]))
  ELSE IF acc[3] = 0 THEN Number(0) ELSE Quotient(acc[2], acc[3])

defuzzifyMOM(rules, min, max, step) ==
  defuzzifyMOMFrom(getFuzzySetConsequences(rules), min, max, step, <<0, 0, 0>>)

\* ReachesHalf as it would be with > for >=
PassesHalf(left, total) == 2 * left > total

\* leftArea >= totalArea / 2, areas being in halves
ReachesHalf(left, total) == 2 * left >= total

RECURSIVE totalAreaFrom(_, _, _, _, _)
totalAreaFrom(sets, xx, max, step, total) ==
  IF xx <= max
  THEN totalAreaFrom(sets, xx + step, max, step, total + aggregate(sets, xx) * step)
  ELSE total

RECURSIVE bisectorFrom(_, _, _, _, _, _, _)
bisectorFrom(sets, xx, max, step, total, left, b) ==
  IF xx <= max
  THEN LET l == left + aggregate(sets, xx) * step
       IN  IF ReachesHalf(l, total)
           THEN Number(xx)
           ELSE bisectorFrom(sets, xx + step, max, step, total, l, b)
  ELSE Number(b)

defuzzifyBisector(rules, min, max, step) ==
  LET sets == getFuzzySetConsequences(rules)
  IN  bisectorFrom(sets, min, max, step,
                   totalAreaFrom(sets, min, max, step, 0), 0, min)

(***************************************************************************)
(* State: the receiver, the call in progress or last returned, the locals  *)
(* of the sampling loops, and the returned value.                          *)
(***************************************************************************)
VARIABLES
  self,        \* the object the methods are called on
  pc,          \* "ready" | "loop" | "pass2" | "done"
  method,      \* the method called last ("new" after construction)
  args,        \* its arguments
  fuzzySets,   \* const fuzzySets = this.getFuzzySetConsequences()
  x,           \* the loop variable
  numerator, denominator,          \* centroid, defuzzifyCentroid
  maxMu, sumX, count,              \* defuzzifyMOM
  totalArea, leftArea, bisector,   \* defuzzifyBisector
  iters,       \* iterations of the current loop so far
  invoked,     \* caller-supplied condition / consequence functions invoked
  ret          \* the value returned by the last call

locals == <<fuzzySets, x, numerator, denominator, maxMu, sumX, count,
            totalArea, leftArea, bisector, iters>>
vars == <<self, pc, method, args, locals, invoked, ret>>

ASet(S) == [class |-> "FuzzySet", set |-> S, rules |-> <<>>]
AnEngine(rules) == [class |-> "InferenceEngine", set |-> NoSet, rules |-> rules]

Receivers == {ASet(S) : S \in FuzzySets} \cup {AnEngine(r) : r \in Engines}

NoInputs == [urgency |-> 0, complexity |-> 0]
NoArgs == [otherSet |-> NoSet, inputs |-> NoInputs, min |-> 0, max |-> 0, step |-> 0]
\* A returned value: undefined, a string, a FuzzySet, an array of FuzzySets
\* or a number (a fraction <<n, d>>)
Undefined ==
  [type |-> "undefined", string |-> "", object |-> NoSet, array |-> <<>>,
   number |-> <<0, 1>>]
AString(s) == [Undefined EXCEPT !.type = "string", !.string = s]
AnObject(S) == [Undefined EXCEPT !.type = "object", !.object = S]
AnArray(a) == [Undefined EXCEPT !.type = "object", !.array = a]
ANumber(q) == [Undefined EXCEPT !.type = "number", !.number = q]

\* The sampling range: min and max on the grid, step 0 or one grid unit.
Mins == {0, Knee}
Steps == {0, Knee}
Ranges == [min : Mins, max : Xs, step : Steps]
RangeArgs(r) == [NoArgs EXCEPT !.min = r.min, !.max = r.max, !.step = r.step]

FreshLocals ==
  /\ fuzzySets' = <<>>
  /\ x' = 0
  /\ numerator' = 0 /\ denominator' = 0
  /\ maxMu' = 0 /\ sumX' = 0 /\ count' = 0
  /\ totalArea' = 0 /\ leftArea' = 0 /\ bisector' = 0
  /\ iters' = 0

Init ==
  /\ self \in Receivers
  /\ pc = "ready"
  /\ method = "new"
  /\ args = NoArgs
  /\ fuzzySets = <<>>
  /\ x = 0
  /\ numerator = 0 /\ denominator = 0
  /\ maxMu = 0 /\ sumX = 0 /\ count = 0
  /\ totalArea = 0 /\ leftArea = 0 /\ bisector = 0
  /\ iters = 0
  /\ invoked = 0
  /\ ret = Undefined

\* A method that returns in one step.
Returns(m, a, value, calls) ==
  /\ pc' = "done"
  /\ method' = m
  /\ args' = a
  /\ ret' = value
  /\ invoked' = calls
  /\ FreshLocals
  /\ UNCHANGED self

(***************************************************************************)
(* FuzzySet methods                                                        *)
(***************************************************************************)
Union ==
  /\ pc = "ready" /\ self.class = "FuzzySet"
  /\ \E otherSet \in FuzzySets :
       Returns("union", [NoArgs EXCEPT !.otherSet = otherSet],
               AnObject(union(self.set, otherSet)), 0)

Intersection ==
  /\ pc = "ready" /\ self.class = "FuzzySet"
  /\ \E otherSet \in FuzzySets :
       Returns("intersection", [NoArgs EXCEPT !.otherSet = otherSet],
               AnObject(intersection(self.set, otherSet)), 0)

Complement ==
  /\ pc = "ready" /\ self.class = "FuzzySet"
  /\ Returns("complement", NoArgs, AnObject(complement(self.set)), 0)

\* Entering a sampling loop: for (let x = min; ...)
Enters(m, r, sets) ==
  /\ pc' = "loop"
  /\ method' = m
  /\ args' = RangeArgs(r)
  /\ fuzzySets' = sets
  /\ x' = r.min
  /\ numerator' = 0 /\ denominator' = 0
  /\ maxMu' = 0 /\ sumX' = 0 /\ count' = 0
  /\ totalArea' = 0 /\ leftArea' = 0 /\ bisector' = r.min
  /\ iters' = 0
  /\ invoked' = 0
  /\ ret' = Undefined
  /\ UNCHANGED self

\* Leaving a call with its value; the locals keep their last values.
Leaves(value) ==
  /\ pc' = "done"
  /\ ret' = ANumber(value)
  /\ UNCHANGED <<self, method, args, locals, invoked>>

\* x <= max, the loop test
InLoop(m, p) == pc = p /\ method = m /\ x <= args.max /\ iters < MaxIter
OffLoop(m, p) == pc = p /\ method = m /\ ~(x <= args.max)

Centroid ==
  /\ pc = "ready" /\ self.class = "FuzzySet"
  /\ \E r \in Ranges : Enters("centroid", r, <<>>)

CentroidStep ==
  /\ InLoop("centroid", "loop")
  /\ LET mu == self.set.membershipFunction[x]
     IN  /\ numerator' = numerator + x * mu
         /\ denominator' = denominator + mu
  /\ x' = x + args.step
  /\ iters' = iters + 1
  /\ UNCHANGED <<self, pc, method, args, fuzzySets, maxMu, sumX, count,
                 totalArea, leftArea, bisector, invoked, ret>>

CentroidReturn ==
  /\ OffLoop("centroid", "loop")
  /\ Leaves(IF denominator = 0 THEN Number(0) ELSE Quotient(numerator, denominator))

(***************************************************************************)
(* InferenceEngine methods                                                 *)
(***************************************************************************)
Infer ==
  /\ pc = "ready" /\ self.class = "InferenceEngine"
  /\ \E inputs \in Inputs :
       Returns("infer", [NoArgs EXCEPT !.inputs = inputs],
               AString(infer(self.rules, inputs)), inferCalls(self.rules, inputs, 1))

GetFuzzySetConsequences ==
  /\ pc = "ready" /\ self.class = "InferenceEngine"
  /\ Returns("getFuzzySetConsequences", NoArgs,
             AnArray(getFuzzySetConsequences(self.rules)), 0)

DefuzzifyCentroid ==
  /\ pc = "ready" /\ self.class = "InferenceEngine"
  /\ \E r \in Ranges :
       Enters("defuzzifyCentroid", r, getFuzzySetConsequences(self.rules))

DefuzzifyCentroidStep ==
  /\ InLoop("defuzzifyCentroid", "loop")
  /\ LET mu == aggregate(fuzzySets, x)
     IN  /\ numerator' = numerator + x * mu
         /\ denominator' = denominator + mu
  /\ x' = x + args.step
  /\ iters' = iters + 1
  /\ UNCHANGED <<self, pc, method, args, fuzzySets, maxMu, sumX, count,
                 totalArea, leftArea, bisector, invoked, ret>>

DefuzzifyCentroidReturn ==
  /\ OffLoop("defuzzifyCentroid", "loop")
  /\ Leaves(IF denominator = 0 THEN Number(0) ELSE Quotient(numerator, denominator))

DefuzzifyMOM ==
  /\ pc = "ready" /\ self.class = "InferenceEngine"
  /\ \E r \in Ranges :
       Enters("defuzzifyMOM", r, getFuzzySetConsequences(self.rules))

DefuzzifyMOMStep ==
  /\ InLoop("defuzzifyMOM", "loop")
  /\ LET new == MOMBody(aggregate(fuzzySets, x), x, maxMu, sumX, count)
     IN  /\ maxMu' = new[1]
         /\ sumX' = new[2]
         /\ count' = new[3]
  /\ x' = x + args.step
  /\ iters' = iters + 1
  /\ UNCHANGED <<self, pc, method, args, fuzzySets, numerator, denominator,
                 totalArea, leftArea, bisector, invoked, ret>>

DefuzzifyMOMReturn ==
  /\ OffLoop("defuzzifyMOM", "loop")
  /\ Leaves(IF count = 0 THEN Number(0) ELSE Quotient(sumX, count))

DefuzzifyBisector ==
  /\ pc = "ready" /\ self.class = "InferenceEngine"
  /\ \E r \in Ranges :
       Enters("defuzzifyBisector", r, getFuzzySetConsequences(self.rules))

\* First loop: totalArea += mu * step
BisectorTotalStep ==
  /\ InLoop("defuzzifyBisector", "loop")
  /\ totalArea' = totalArea + aggregate(fuzzySets, x) * args.step
  /\ x' = x + args.step
  /\ iters' = iters + 1
  /\ UNCHANGED <<self, pc, method, args, fuzzySets, numerator, denominator,
                 maxMu, sumX, count, leftArea, bisector, invoked, ret>>

\* The first loop ends and the second starts: for (let x = min; ...)
BisectorSecondLoop ==
  /\ OffLoop("defuzzifyBisector", "loop")
  /\ pc' = "pass2"
  /\ x' = args.min
  /\ iters' = 0
  /\ UNCHANGED <<self, method, args, fuzzySets, numerator, denominator,
                 maxMu, sumX, count, totalArea, leftArea, bisector, invoked, ret>>

\* Second loop: leftArea += mu * step; at the threshold bisector = x; break
BisectorLeftStep ==
  /\ InLoop("defuzzifyBisector", "pass2")
  /\ LET left == leftArea + aggregate(fuzzySets, x) * args.step
     IN  /\ leftArea' = left
         /\ IF ReachesHalf(left, totalArea)
            THEN /\ bisector' = x
                 /\ x' = x
                 /\ pc' = "done"
                 /\ ret' = ANumber(Number(x))
            ELSE /\ bisector' = bisector
                 /\ x' = x + args.step
                 /\ pc' = pc
                 /\ ret' = ret
  /\ iters' = iters + 1
  /\ UNCHANGED <<self, method, args, fuzzySets, numerator, denominator,
                 maxMu, sumX, count, totalArea, invoked>>

\* The second loop ends without a break.
BisectorReturn ==
  /\ OffLoop("defuzzifyBisector", "pass2")
  /\ Leaves(Number(bisector))

Next ==
  \/ Union \/ Intersection \/ Complement
  \/ Centroid \/ CentroidStep \/ CentroidReturn
  \/ Infer \/ GetFuzzySetConsequences
  \/ DefuzzifyCentroid \/ DefuzzifyCentroidStep \/ DefuzzifyCentroidReturn
  \/ DefuzzifyMOM \/ DefuzzifyMOMStep \/ DefuzzifyMOMReturn
  \/ DefuzzifyBisector \/ BisectorTotalStep \/ BisectorSecondLoop
  \/ BisectorLeftStep \/ BisectorReturn

Spec == Init /\ [][Next]_vars

\* The steps inside a call of a sampling method
Running ==
  \/ CentroidStep \/ CentroidReturn
  \/ DefuzzifyCentroidStep \/ DefuzzifyCentroidReturn
  \/ DefuzzifyMOMStep \/ DefuzzifyMOMReturn
  \/ BisectorTotalStep \/ BisectorSecondLoop \/ BisectorLeftStep \/ BisectorReturn

\* JavaScript runs a call to completion: inside a call, a step that can be
\* taken is taken.
FairSpec == Spec /\ WF_vars(Running)


(***************************************************************************)
(* What the properties below are stated with.                              *)
(***************************************************************************)
Done(m) == pc = "done" /\ method = m

RECURSIVE SumOver(_, _)
\* The sum of f[e] over the finite set S
SumOver(S, f) ==
  IF S = {} THEN 0
  ELSE LET e == CHOOSE e \in S : TRUE IN f[e] + SumOver(S \ {e}, f)

SetMax(S) == CHOOSE m \in S : \A n \in S : m >= n
SetMin(S) == CHOOSE m \in S : \A n \in S : m <= n

\* Equal as fractions
SameNumber(a, b) == a[2] # 0 /\ b[2] # 0 /\ a[1] * b[2] = b[1] * a[2]

\* The sampled points x = min, min + step, ... while x <= max
Samples(a) ==
  IF a.step > 0
  THEN {xx \in a.min..a.max : (xx - a.min) % a.step = 0}
  ELSE {}

\* The indices of the rules whose consequence field is a FuzzySet instance
InstanceRules(rules) ==
  {i \in 1..Len(rules) : rules[i].consequence.instanceofFuzzySet}

\* The aggregate membership at xx: the maximum of 0 and of every FuzzySet
\* consequence's membership
Aggregate(rules, xx) ==
  SetMax({0} \cup {rules[i].consequence.value.set.membershipFunction[xx] :
                     i \in InstanceRules(rules)})

\* The sampled points where the aggregate membership is largest
Maxima(rules, a) ==
  {xx \in Samples(a) :
     \A y \in Samples(a) : Aggregate(rules, xx) >= Aggregate(rules, y)}

\* The sum of the numbers of S
SumSet(S) == SumOver(S, [xx \in S |-> xx])


WholeGrid == [min |-> 0, max |-> Knee * MaxX, step |-> Knee]

(***************************************************************************)
(* C3.  defuzzifyMOM(min, max, step) returns the mean of exactly those     *)
(* sampled x at which the aggregate membership equals its largest value    *)
(* over all sampled points, and 0 when no point is sampled.                *)
(***************************************************************************)
C3_MOMIsMeanOfMaxima ==
  Done("defuzzifyMOM") =>
    LET top == Maxima(self.rules, args)
    IN  IF Samples(args) = {}
        THEN ret.number = Number(0)
        ELSE SameNumber(ret.number, Quotient(SumSet(top), Cardinality(top)))

\* The single plateau sampled over the whole grid: the mean of its two points.
C3_Witness ==
  /\ Done("defuzzifyMOM")
  /\ fuzzySets = <<PlateauSet>>
  /\ [min |-> args.min, max |-> args.max, step |-> args.step] = WholeGrid
  /\ Maxima(self.rules, args) = {Knee, 2 * Knee}
  /\ SameNumber(ret.number, Quotient(3 * Knee, 2))

(***************************************************************************)
(* C4.  As claimed: when the aggregate membership reaches its maximum,     *)
(* dips strictly below it and later returns to the same maximum, the later *)
(* samples are not included in the mean defuzzifyMOM returns (only the     *)
(* first contiguous run of maxima is).                                     *)
(* As the code has it: they are included; every sample that ties with the  *)
(* final maximum is counted, whatever lies between.                        *)
(***************************************************************************)
\* Some maximum a, a lower sample b after it, and the maximum again at c
DipsAndRecovers(rules, a) ==
  \E aa, b, c \in Samples(a) :
    /\ aa < b /\ b < c
    /\ aa \in Maxima(rules, a) /\ c \in Maxima(rules, a)
    /\ b \notin Maxima(rules, a)

\* The maxima from the first one on, up to the first dip
FirstRun(rules, a) ==
  LET top == Maxima(rules, a)
  IN  {xx \in top : \A y \in Samples(a) : (SetMin(top) <= y /\ y <= xx) => y \in top}

C4_LaterMaximaExcluded ==
  (Done("defuzzifyMOM") /\ DipsAndRecovers(self.rules, args)) =>
    LET run == FirstRun(self.rules, args)
    IN  SameNumber(ret.number, Quotient(SumSet(run), Cardinality(run)))

C4_LaterMaximaIncluded ==
  (Done("defuzzifyMOM") /\ DipsAndRecovers(self.rules, args)) =>
    LET top == Maxima(self.rules, args)
    IN  /\ count = Cardinality(top)
        /\ sumX = SumSet(top)
        /\ count > Cardinality(FirstRun(self.rules, args))

C4_Witness ==
  /\ Done("defuzzifyMOM")
  /\ DipsAndRecovers(self.rules, args)
  /\ fuzzySets = <<PeaksSet>>
  /\ args.min = 0 /\ args.max = 2 * Knee
  /\ count = 2 /\ sumX = 2 * Knee

(***************************************************************************)
(* C5.  defuzzifyBisector(min, max, step) returns the first sampled x at   *)
(* which the area accumulated up to and including x is at least half of    *)
(* the total area, the area before it being strictly below half; when the  *)
(* total area is zero or no sample reaches the threshold it returns min.   *)
(***************************************************************************)
\* The sum of aggregate membership * step over the samples up to xx
AreaUpTo(rules, a, xx) ==
  SumOver({y \in Samples(a) : y <= xx},
          [y \in Samples(a) |-> Aggregate(rules, y) * a.step])

C5_BisectorIsFirstHalfPoint ==
  Done("defuzzifyBisector") =>
    LET total == AreaUpTo(self.rules, args, args.max)
        hits  == {xx \in Samples(args) : 2 * AreaUpTo(self.rules, args, xx) >= total}
    IN  /\ hits = {} => ret.number = Number(args.min)
        /\ total = 0 => ret.number = Number(args.min)
        /\ hits # {} =>
             /\ ret.number = Number(SetMin(hits))
             /\ \A y \in Samples(args) :
                  y < ret.number[1] => 2 * AreaUpTo(self.rules, args, y) < total

\* The plateau over the whole grid: half the area is reached at its first point.
C5_Witness ==
  /\ Done("defuzzifyBisector")
  /\ fuzzySets = <<PlateauSet>>
  /\ [min |-> args.min, max |-> args.max, step |-> args.step] = WholeGrid
  /\ totalArea > 0
  /\ ret.number = Number(Knee)


(***************************************************************************)
(* C1.  infer(inputs) returns 'Low Priority' when no rule's condition      *)
(* holds or the matched rules' weights do not sum to more than 0;          *)
(* otherwise the label of S = sum(score * weight) / sum(weight) over the   *)
(* matched rules (Urgent 3, High Priority 2, Medium Priority 1, anything   *)
(* else 0): 'Urgent' if S >= 2.5, 'High Priority' if S >= 1.5, 'Medium     *)
(* Priority' if S >= 0.5, else 'Low Priority'.  A matched rule that scores *)
(* 0 still adds its weight to the denominator.  The sums are the code's:   *)
(* binary64 sums taken in rule order.                                      *)
(***************************************************************************)
Matched(rules, inputs) ==
  {i \in 1..Len(rules) : Condition(rules[i].condition, inputs)}

Score(v) ==
  IF v.type # "string" THEN 0
  ELSE IF v.str = "Urgent" THEN 3
  ELSE IF v.str = "High Priority" THEN 2
  ELSE IF v.str = "Medium Priority" THEN 1
  ELSE 0

\* The sum of the weights of the matched rules among the first n
RECURSIVE WeightSum(_, _, _)
WeightSum(rules, inputs, n) ==
  IF n = 0 THEN FZero
  ELSE IF n \in Matched(rules, inputs)
       THEN FAdd(WeightSum(rules, inputs, n - 1), rules[n].weight)
       ELSE WeightSum(rules, inputs, n - 1)

\* The sum of score * weight of the matched rules among the first n
RECURSIVE ScoreSum(_, _, _)
ScoreSum(rules, inputs, n) ==
  IF n = 0 THEN FZero
  ELSE IF n \in Matched(rules, inputs)
       THEN FAdd(ScoreSum(rules, inputs, n - 1),
                 FMul(FromNat(Score(rules[n].consequence.value)), rules[n].weight))
       ELSE ScoreSum(rules, inputs, n - 1)

Label(S) ==
  CASE FGe(S, Halves(5)) -> "Urgent"
    [] ~FGe(S, Halves(5)) /\ FGe(S, Halves(3)) -> "High Priority"
    [] ~FGe(S, Halves(3)) /\ FGe(S, Halves(1)) -> "Medium Priority"
    [] OTHER -> "Low Priority"

C1_InferIsWeightedMeanLabel ==
  Done("infer") =>
    LET rules == self.rules
        n == Len(rules)
        W == WeightSum(rules, args.inputs, n)
    IN  IF Matched(rules, args.inputs) = {} \/ ~FGt(W, FZero)
        THEN ret.string = "Low Priority"
        ELSE ret.string = Label(FDiv(ScoreSum(rules, args.inputs, n), W))

\* A rule scoring 3 and a FuzzySet rule scoring 0 both match: the zero
\* score's weight pulls the mean below 2.5.
C1_Witness ==
  /\ Done("infer")
  /\ self.rules \in RuleLists
  /\ ret.string = "High Priority"
  /\ \E i, j \in Matched(self.rules, args.inputs) :
       /\ Score(self.rules[i].consequence.value) = 3
       /\ self.rules[j].consequence.instanceofFuzzySet
  /\ \A i \in Matched(self.rules, args.inputs) :
       Score(self.rules[i].consequence.value) \in {0, 3}

(***************************************************************************)
(* C2.  As claimed: with the README's four rules and the input             *)
(* {urgency: 8, complexity: 6}, infer returns 'Urgent'.                    *)
(* As the code has it: it returns 'Medium Priority' (rules 1, 2 and 3      *)
(* match with scores 0, 2 and 1 and weights 1: the mean is 1).             *)
(***************************************************************************)
ReadmeCall ==
  /\ Done("infer")
  /\ self = AnEngine(ReadmeRules)
  /\ args.inputs = [urgency |-> 8, complexity |-> 6]

C2_ReadmeTicketIsUrgent == ReadmeCall => ret.string = "Urgent"

C2_ReadmeTicketIsMedium == ReadmeCall => ret.string = "Medium Priority"

C2_Witness == ReadmeCall /\ Matched(self.rules, args.inputs) = {1, 2, 3}

(***************************************************************************)
(* C6.  The set returned by A.union(B) has membershipDegree(x) =           *)
(* max(A(x), B(x)), the one returned by A.intersection(B) has              *)
(* min(A(x), B(x)), the one returned by A.complement() has 1 - A(x).       *)
(***************************************************************************)
C6_SetAlgebraIsPointwise ==
  \A xx \in Xs :
    LET A == membershipDegree(self.set, xx)
        B == membershipDegree(args.otherSet, xx)
    IN  /\ Done("union") =>
             LET v == membershipDegree(ret.object, xx)
             IN  v >= A /\ v >= B /\ v \in {A, B}
        /\ Done("intersection") =>
             LET v == membershipDegree(ret.object, xx)
             IN  v <= A /\ v <= B /\ v \in {A, B}
        /\ Done("complement") => membershipDegree(ret.object, xx) + A = Full

\* A union that is neither operand
C6_Witness ==
  /\ Done("union")
  /\ ret.object.membershipFunction # self.set.membershipFunction
  /\ ret.object.membershipFunction # args.otherSet.membershipFunction

(***************************************************************************)
(* C7.  getFuzzySetConsequences() returns exactly the consequence fields   *)
(* of the rules that are FuzzySet instances, in rule order, invoking no    *)
(* condition and no consequence function; a function-valued consequence is *)
(* left out even when the function would return a FuzzySet.                *)
(***************************************************************************)
\* The k-th smallest element of the set of numbers S
Kth(S, k) == CHOOSE i \in S : Cardinality({j \in S : j < i}) = k - 1

C7_ConsequencesAreTheInstances ==
  Done("getFuzzySetConsequences") =>
    LET I == InstanceRules(self.rules)
    IN  /\ Len(ret.array) = Cardinality(I)
        /\ \A k \in 1..Len(ret.array) : ret.array[k] = self.rules[Kth(I, k)].consequence.value.set
        /\ invoked = 0

\* An instance is returned and a function that would return a FuzzySet is not
C7_Witness ==
  /\ Done("getFuzzySetConsequences")
  /\ Len(ret.array) = 2
  /\ \E i \in 1..Len(self.rules) :
       /\ ~self.rules[i].consequence.instanceofFuzzySet
       /\ self.rules[i].consequence.value.type = "FuzzySet"

(***************************************************************************)
(* C8.  Every call of centroid, defuzzifyCentroid, defuzzifyMOM and        *)
(* defuzzifyBisector terminates after finitely many sampling iterations,   *)
(* whatever min, max and step the caller supplies.                         *)
(* Each loop is for (let x = min; x <= max; x += step): max and step never *)
(* change and x += step is the only assignment to x, so a loop that has    *)
(* started ends exactly when every iteration leaves x larger than it found *)
(* it; an iteration that does not is repeated without end.                 *)
(***************************************************************************)
InSamplingLoop == pc \in {"loop", "pass2"}

C8_EveryIterationAdvances == [][(InSamplingLoop /\ pc' = pc) => x' > x]_vars

\* C8 as the liveness property it is, for FairSpec: a call that has entered
\* a sampling loop returns.
EveryCallTerminates == InSamplingLoop ~> (pc = "done")

(***************************************************************************)
(* C9.  As claimed: the label infer returns does not depend on the order   *)
(* of the rules.                                                           *)
(* As the code has it: the two sums are accumulated in rule order in       *)
(* binary64, so with fractional weights a mean on a threshold can fall on  *)
(* either side of it; the label is the same for every order when all       *)
(* weights are integers (small enough for the sums to be exact).           *)
(***************************************************************************)
Orders(n) == {p \in [1..n -> 1..n] : \A i, j \in 1..n : p[i] = p[j] => i = j}

Reordered(rules, p) == [i \in 1..Len(rules) |-> rules[p[i]]]

SameLabelInEveryOrder ==
  \A p \in Orders(Len(self.rules)) :
    infer(Reordered(self.rules, p), args.inputs) = ret.string

\* w is an integer of at most LimbBits bits
SmallInteger(w) == w.exp = 0 /\ Len(w.mant) <= 1

IntegerWeights(rules) == \A i \in 1..Len(rules) : SmallInteger(rules[i].weight)

C9_OrderIsIrrelevant == Done("infer") => SameLabelInEveryOrder

C9_OrderIsIrrelevantForIntegerWeights ==
  (Done("infer") /\ IntegerWeights(self.rules)) => SameLabelInEveryOrder

\* Two matched rules with different scores and integer weights
C9_Witness ==
  /\ Done("infer")
  /\ IntegerWeights(self.rules)
  /\ ret.string = "High Priority"
  /\ \E i, j \in Matched(self.rules, args.inputs) :
       /\ i < j
       /\ Score(self.rules[i].consequence.value) = 3
       /\ Score(self.rules[j].consequence.value) = 0
       /\ self.rules[j].weight # FZero


(***************************************************************************)
(* C10.  defuzzifyCentroid, defuzzifyMOM and defuzzifyBisector depend only *)
(* on the rules' FuzzySet-instance consequences and on min, max, step: an  *)
(* engine with the same FuzzySet consequences under other conditions and   *)
(* weights, with or without function-valued consequences, returns the same *)
(* value; and with FuzzySet consequences C1..Cn of non-negative membership *)
(* defuzzifyCentroid(min, max, step) equals                                *)
(* C1.union(...).union(Cn).centroid(min, max, step).                       *)
(***************************************************************************)
\* The FuzzySet-instance consequences of the rules, in rule order
InstanceSets(rules) ==
  [k \in 1..Cardinality(InstanceRules(rules)) |->
     rules[Kth(InstanceRules(rules), k)].consequence.value.set]

\* Rules with the given FuzzySet consequences, one condition and one weight
RulesOf(sets, condition, weight) ==
  [k \in 1..Len(sets) |-> FuzzyRule(condition, Instance(sets[k]), weight)]

\* Engines with the same FuzzySet consequences as rules: other conditions,
\* other weights, and a function-valued consequence first or last
Likes(rules) ==
  LET sets == InstanceSets(rules)
      f == FuzzyRule("urgency > 0.5", Function(Obj(PeaksSet)), FromNat(3))
      g == FuzzyRule("both <= 0.5", Function(Str("Urgent")), FZero)
  IN  { RulesOf(sets, "both <= 0.5", FZero),
        RulesOf(sets, "urgency > 0.5", FromNat(2)),
        <<f>> \o RulesOf(sets, "both > 0.7", Tenth),
        RulesOf(sets, "complexity > 0.5", One) \o <<g>> }

\* C1.union(C2)...union(Cn), for n >= 1
RECURSIVE UnionChain(_, _)
UnionChain(sets, n) ==
  IF n = 1 THEN sets[1] ELSE union(UnionChain(sets, n - 1), sets[n])

NonNegative(sets) ==
  \A k \in 1..Len(sets) : \A xx \in Xs : sets[k].membershipFunction[xx] >= 0

C10_DefuzzifyDependsOnFuzzySetsOnly ==
  LET sets == InstanceSets(self.rules)
  IN  /\ Done("defuzzifyCentroid") =>
           /\ \A like \in Likes(self.rules) :
                SameNumber(ret.number, defuzzifyCentroid(like, args.min, args.max, args.step))
           /\ (Len(sets) >= 1 /\ NonNegative(sets)) =>
                SameNumber(ret.number, centroid(UnionChain(sets, Len(sets)),
                                         args.min, args.max, args.step))
      /\ Done("defuzzifyMOM") =>
           \A like \in Likes(self.rules) :
             SameNumber(ret.number, defuzzifyMOM(like, args.min, args.max, args.step))
      /\ Done("defuzzifyBisector") =>
           \A like \in Likes(self.rules) :
             SameNumber(ret.number, defuzzifyBisector(like, args.min, args.max, args.step))

\* Two FuzzySet consequences neither of which is the union, a rule of weight
\* 0 or a function-valued consequence beside them, and a centroid that is
\* not 0
C10_Witness ==
  /\ Done("defuzzifyCentroid")
  /\ Len(fuzzySets) >= 2
  /\ NonNegative(fuzzySets)
  /\ \A k \in 1..Len(fuzzySets) :
       UnionChain(fuzzySets, Len(fuzzySets)).membershipFunction
         # fuzzySets[k].membershipFunction
  /\ Len(self.rules) > Len(fuzzySets)
  /\ ret.number[1] > 0

====
